---- MODULE Spec2Model ----
(***************************************************************************)
(* Order creation, product inventory, order lifecycle, shopping cart and   *)
(* authentication of the bazaarhub backend (services/orders,              *)
(* services/products, services/cart, services/auth, shared/otp).          *)
(*                                                                         *)
(* Money is a Decimal in the code.  It is modelled as an integer number of *)
(* 10^-5 units, so that a price with three fractional digits (which        *)
(* ProductUpdate accepts) times 0.05 is still exact: 1.00 = 100000,        *)
(* 0.01 = 1000.                                                            *)
(*                                                                         *)
(* Every `await` of a handler is a point where another request can run, so *)
(* a handler is one action per await: create_order is begin / get / save / *)
(* insert, update_product and delete_product are get / save, the cart      *)
(* handlers are find / (fetch) / save and verify_otp is get / delete.      *)
(***************************************************************************)
EXTENDS Integers, Sequences, FiniteSets, TLC

VARIABLES products, orders, calls, upd, now, patch, listing,
          carts, ccalls, users, otps, vcalls, outbox, reply

vars == <<products, orders, calls, upd, now, patch, listing,
          carts, ccalls, users, otps, vcalls, outbox, reply>>

(* ------------------------------------------------------------------ *)
(* Bounds and input sets                                               *)
(* ------------------------------------------------------------------ *)

\* number of create_order requests of one run (each request runs once)
NCalls == 2

Calls == 1..NCalls

\* orders of one lifecycle run
MaxOrders == 2

\* orders of one listing run
MaxListed == 3

\* page_size values of list_orders requests (1..100 in the route)
PageSizes == {1, 2}

\* clock readings 0..MaxTime (stored datetimes have millisecond precision,
\* so two orders can carry the same reading)
MaxTime == 1

\* the lifecycle runs have one create_order request in flight at a time
LifeCalls == {1}

\* product maintained by update_product / delete_product in the lifecycle runs
Maintained == {"p1"}

Users == {"u1", "u2"}

\* the user who orders while the catalogue is maintained
LifeUsers == {"u1"}

\* "p0" is a well-formed id with no product document
ProductIds == {"p1", "p2"}

Cent == 1000

\* Decimal("0.01") as the quantize exponent
Money(units, cents) == units * 100 * Cent + cents * Cent

Item(p, q) == [product_id |-> p, quantity |-> q]

Req(its) == [items |-> its, shipping_address |-> "addr"]

\* requests of the concurrent runs
RaceRequests ==
    { Req(<<Item("p1", 3)>>),
      Req(<<Item("p2", 3)>>),
      Req(<<Item("p2", 1)>>),
      Req(<<Item("p1", 1), Item("p2", 3)>>),
      Req(<<Item("p1", 1), Item("p1", 5)>>),
      Req(<<Item("p2", 1), Item("p1", 2)>>),
      Req(<<Item("p0", 1)>>),
      Req(<<Item("p1", -1)>>),
      Req(<<Item("p2", 0)>>),
      Req(<<>>) }

\* requests of the lifecycle runs
LifeRequests ==
    { Req(<<Item("p1", 3)>>),
      Req(<<Item("p1", 1), Item("p2", 1)>>) }

\* requests of the runs about stored orders: status, clock and listing
ClockRequests == { Req(<<Item("p1", 1)>>) }

\* cart requests in flight at a time
CartCalls == {1, 2}

\* the user whose cart the cart runs are about
CartUsers == {"u1"}

\* AddToCartRequest: quantities of 1..99 whose sums pass the cap
AddInputs == {Item("p1", 60), Item("p2", 99), Item("p0", 1)}

\* UpdateCartItemRequest of PATCH /cart/items/p1
UpdateQuantities == {1, 99}

\* verify-otp requests of one run (each runs once)
VerifyCalls == {1, 2}

\* send-otp requests of one run
MaxSent == 2

\* "cat@x" has no account
Emails == {"ann@x", "bob@x", "cat@x"}

\* the email the one-time-code runs are about
OtpEmails == {"ann@x"}

\* codes generate_otp can draw (6 digits in the code)
Codes == {"111111", "222222"}

\* a password and its len()
Password(text, length) == [text |-> text, length |-> length]

\* passwords of login requests
Passwords == { Password("ann-secret", 10), Password("bob-secret", 10) }

\* ResetPasswordRequest: emails and new passwords
ResetEmails == {"ann@x", "cat@x"}

ResetPasswords == { Password("new-secret", 10), Password("short", 5) }

\* AddToCartRequest of the checkout runs
CheckoutInputs == {Item("p1", 3), Item("p2", 1)}

\* update_dict of update_product: the fields that were set, and their values
Upd(fs, n, p, s) == [set |-> fs, name |-> n, price |-> p, stock |-> s]

UpdateInputs ==
    { Upd({"price"}, "", 10500, 0),
      Upd({"stock"}, "", 0, 4),
      Upd({"name", "price"}, "renamed", Money(0, 50), 0) }

(* ------------------------------------------------------------------ *)
(* Order model                                                         *)
(* ------------------------------------------------------------------ *)

PENDING == "pending"
CONFIRMED == "confirmed"
PROCESSING == "processing"
SHIPPED == "shipped"
DELIVERED == "delivered"
CANCELLED == "cancelled"

OrderStatus == {PENDING, CONFIRMED, PROCESSING, SHIPPED, DELIVERED, CANCELLED}

OrderItem(product_id, name, price, quantity, item_total) ==
    [product_id |-> product_id, name |-> name, price |-> price,
     quantity |-> quantity, item_total |-> item_total]

\* Decimal.quantize(Decimal("0.01")) under the default context: ROUND_HALF_EVEN
quantize(x) ==
    LET q == x \div Cent
        r == x % Cent
    IN  IF 2 * r < Cent THEN q * Cent
        ELSE IF 2 * r > Cent THEN (q + 1) * Cent
        ELSE IF q % 2 = 0 THEN q * Cent ELSE (q + 1) * Cent

\* a tax rate of 0.50
TaxOfHalf(subtotal) == (subtotal * 50) \div 100

\* subtotal * Decimal("0.05"); exact, the subtotal has at most 3 fractional digits
TaxOf(subtotal) == (subtotal * 5) \div 100


\* an order that is stored as already confirmed
OrderConfirmed(user_id, order_items, subtotal, shipping_address) ==
    [user_id |-> user_id,
     items |-> order_items,
     subtotal |-> subtotal,
     shipping_cost |-> 0,
     tax |-> quantize(TaxOf(subtotal)),
     total |-> quantize(subtotal + TaxOf(subtotal)),
     shipping_address |-> shipping_address,
     status |-> CONFIRMED,
     created_at |-> now,
     updated_at |-> now]

\* lines 92-106: totals and the Order document; created_at and updated_at
\* are the model's default_factory=datetime.now
Order(user_id, order_items, subtotal, shipping_address) ==
    LET shipping_cost == 0
        tax == TaxOf(subtotal)
        total == subtotal + shipping_cost + tax
    IN  [user_id |-> user_id,
         items |-> order_items,
         subtotal |-> subtotal,
         shipping_cost |-> shipping_cost,
         tax |-> quantize(tax),
         total |-> quantize(total),
         shipping_address |-> shipping_address,
         status |-> PENDING,
         created_at |-> now,
         updated_at |-> now]

\* a response whose items show the product's current name and price
from_document_live(id, order) ==
    [id |-> id,
     items |-> [k \in DOMAIN order.items |->
                   LET it == order.items[k]
                   IN  OrderItem(it.product_id, products[it.product_id].name,
                                 products[it.product_id].price, it.quantity,
                                 products[it.product_id].price * it.quantity)],
     subtotal |-> order.subtotal,
     shipping_cost |-> order.shipping_cost,
     tax |-> order.tax,
     total |-> order.total,
     shipping_address |-> order.shipping_address,
     status |-> order.status,
     created_at |-> order.created_at]

\* OrderResponse.from_document
from_document(id, order) ==
    [id |-> id,
     items |-> order.items,
     subtotal |-> order.subtotal,
     shipping_cost |-> order.shipping_cost,
     tax |-> order.tax,
     total |-> order.total,
     shipping_address |-> order.shipping_address,
     status |-> order.status,
     created_at |-> order.created_at]

Response(code, detail) == [code |-> code, detail |-> detail]

NoResponse == Response(0, "")

(* ------------------------------------------------------------------ *)
(* Product model                                                       *)
(* ------------------------------------------------------------------ *)

Product(name, price, stock, is_active) ==
    [name |-> name, price |-> price, stock |-> stock, is_active |-> is_active]

\* the local variable `product` before Product.get has returned
NoProduct == Product("", 0, 0, FALSE)

\* the catalogue: two products inserted by create_product
InitProducts ==
    [p \in ProductIds |->
        IF p = "p1" THEN Product("widget", Money(10, 0), 5, TRUE)
                    ELSE Product("gadget", Money(0, 50), 2, TRUE)]

(* ------------------------------------------------------------------ *)
(* State                                                               *)
(* ------------------------------------------------------------------ *)

IdleCall ==
    [pc |-> "idle", user_id |-> "", items |-> <<>>, shipping_address |-> "",
     i |-> 0, product |-> NoProduct, order_items |-> <<>>, subtotal |-> 0,
     response |-> NoResponse, order_id |-> 0]

NoPatch == [caller |-> "", code |-> 0]

IdleListing ==
    [pc |-> "idle", user_id |-> "", page |-> 0, page_size |-> 0, total |-> 0,
     responses |-> <<>>]

\* fields: the attributes the handler has set on its local document
IdleUpd == [pc |-> "idle", product_id |-> "", product |-> NoProduct, fields |-> {}]

(* ------------------------------------------------------------------ *)
(* OrderService.create_order                                           *)
(* ------------------------------------------------------------------ *)

Raise(c, code, detail) ==
    calls' = [calls EXCEPT ![c].pc = "failed",
                           ![c].product = NoProduct,
                           ![c].response = Response(code, detail)]

\* a create_order without the test of lines 47-51: the loop over no items
\* is skipped and the order is built
create_order_begin_unchecked(c, user_id, data) ==
    /\ calls[c].pc = "idle"
    /\ calls' = [calls EXCEPT ![c].pc = IF data.items = <<>> THEN "insert" ELSE "get",
                              ![c].user_id = user_id,
                              ![c].items = data.items,
                              ![c].shipping_address = data.shipping_address,
                              ![c].i = IF data.items = <<>> THEN 0 ELSE 1]
    /\ UNCHANGED <<products, orders, upd, now, patch, listing, carts, ccalls, users, otps, vcalls, outbox, reply>>

\* lines 45-57: the request arrives; an empty item list is rejected
create_order_begin(c, user_id, data) ==
    /\ calls[c].pc = "idle"
    /\ IF data.items = <<>>
       THEN calls' = [calls EXCEPT ![c].pc = "failed",
                                   ![c].user_id = user_id,
                                   ![c].items = data.items,
                                   ![c].shipping_address = data.shipping_address,
                                   ![c].response = Response(400, "Order must contain at least one item")]
       ELSE calls' = [calls EXCEPT ![c].pc = "get",
                                   ![c].user_id = user_id,
                                   ![c].items = data.items,
                                   ![c].shipping_address = data.shipping_address,
                                   ![c].i = 1]
    /\ UNCHANGED <<products, orders, upd, now, patch, listing, carts, ccalls, users, otps, vcalls, outbox, reply>>

\* line 62: `if not product`
ProductMissing(product_id) == product_id \notin DOMAIN products

\* the stock check off by one
StockShortOffByOne(product, quantity) == product.stock + 1 < quantity

\* line 69: `if product.stock < item.quantity`
StockShort(product, quantity) == product.stock < quantity

\* lines 61-76: Product.get returns, then the checks and the local deduction
create_order_get(c) ==
    /\ calls[c].pc = "get"
    /\ LET item == calls[c].items[calls[c].i]
       IN  IF ProductMissing(item.product_id)
           THEN Raise(c, 404, "Product not found")
           ELSE LET product == products[item.product_id]
                IN  IF StockShort(product, item.quantity)
                    THEN Raise(c, 400, "Insufficient stock")
                    ELSE calls' = [calls EXCEPT
                            ![c].pc = "save",
                            ![c].product = [product EXCEPT !.stock = @ - item.quantity]]
    /\ UNCHANGED <<products, orders, upd, now, patch, listing, carts, ccalls, users, otps, vcalls, outbox, reply>>

\* lines 77-90: product.save() writes the whole local document, then the
\* line item is appended; the loop goes to the next item or to the insert
create_order_save(c) ==
    /\ calls[c].pc = "save"
    /\ LET item == calls[c].items[calls[c].i]
           product == calls[c].product
           item_total == product.price * item.quantity
       IN  /\ products' = [products EXCEPT ![item.product_id] = product]
           /\ calls' = [calls EXCEPT
                  ![c].pc = IF calls[c].i < Len(calls[c].items) THEN "get" ELSE "insert",
                  ![c].i = IF calls[c].i < Len(calls[c].items) THEN @ + 1 ELSE @,
                  ![c].product = NoProduct,
                  ![c].subtotal = @ + item_total,
                  ![c].order_items = Append(@, OrderItem(item.product_id, product.name,
                                                        product.price, item.quantity,
                                                        item_total))]
    /\ UNCHANGED <<orders, upd, now, patch, listing, carts, ccalls, users, otps, vcalls, outbox, reply>>

\* lines 92-110: order.insert() and the 201 response
create_order_insert(c) ==
    /\ calls[c].pc = "insert"
    /\ LET order == Order(calls[c].user_id, calls[c].order_items,
                          calls[c].subtotal, calls[c].shipping_address)
       IN  /\ orders' = Append(orders, order)
           /\ calls' = [calls EXCEPT ![c].pc = "done",
                                     ![c].order_id = Len(orders) + 1,
                                     ![c].response = Response(201, "")]
    /\ UNCHANGED <<products, upd, now, patch, listing, carts, ccalls, users, otps, vcalls, outbox, reply>>

(* ------------------------------------------------------------------ *)
(* OrderService.get_order, OrderService.update_status                  *)
(* ------------------------------------------------------------------ *)

NotFound == Response(404, "Order not found")

\* get_order without the ownership test
get_order_any_owner(store, user_id, order_id) ==
    IF order_id \notin DOMAIN store
    THEN NotFound
    ELSE [code |-> 200, detail |-> "", body |-> from_document(order_id, store[order_id])]

\* get_order over a given orders collection (0 stands for an id that does
\* not parse as an ObjectId: Order.get raises and order is None)
get_order(store, user_id, order_id) ==
    IF order_id \notin DOMAIN store \/ store[order_id].user_id # user_id
    THEN NotFound
    ELSE [code |-> 200, detail |-> "", body |-> from_document(order_id, store[order_id])]

\* a status change that also drops the shipping address
WithStatusUnaddressed(order, new_status) ==
    [order EXCEPT !.status = new_status, !.updated_at = now,
                  !.shipping_address = ""]

\* a status change that leaves updated_at alone
WithStatusOnly(order, new_status) == [order EXCEPT !.status = new_status]

\* lines 162-163: the loaded document with the new status and
\* update_timestamp()
WithStatus(order, new_status) ==
    [order EXCEPT !.status = new_status, !.updated_at = now]

\* an update_status that drops an order once it is cancelled
update_status_purging(order_id, new_status) ==
    /\ IF order_id \notin DOMAIN orders
       THEN UNCHANGED orders
       ELSE IF new_status = CANCELLED
            THEN orders' = SubSeq(orders, 1, order_id - 1)
                              \o SubSeq(orders, order_id + 1, Len(orders))
            ELSE orders' = [orders EXCEPT ![order_id] = WithStatus(@, new_status)]
    /\ UNCHANGED <<products, calls, upd, now, listing, carts, ccalls, users, otps, vcalls, outbox, reply>>

\* lines 151-167: 404 for a missing order, else the document is saved with
\* the new status whatever the current one is
update_status(order_id, new_status) ==
    /\ IF order_id \notin DOMAIN orders
       THEN UNCHANGED orders
       ELSE orders' = [orders EXCEPT ![order_id] = WithStatus(@, new_status)]
    /\ UNCHANGED <<products, calls, upd, now, listing, carts, ccalls, users, otps, vcalls, outbox, reply>>

\* the answer of update_status: 404 Order not found or the 200 response
StatusCode(order_id) == IF order_id \notin DOMAIN orders THEN 404 ELSE 200

\* who may send PATCH /orders/{order_id}/status: the route declares no
\* identity or capability dependency, so all of these reach the handler
Callers == {"anonymous", "user", "admin"}

\* routes.py update_order_status: the request of `caller` and its answer
update_order_status(caller, order_id, data) ==
    /\ update_status(order_id, data)
    /\ patch' = [caller |-> caller, code |-> StatusCode(order_id)]

(* ------------------------------------------------------------------ *)
(* OrderService.list_orders                                            *)
(* ------------------------------------------------------------------ *)

\* a find() that leaves the user filter out
FindAll(user_id) == DOMAIN orders

\* Order.find(Order.user_id == user_id)
Find(user_id) == {id \in DOMAIN orders : orders[id].user_id = user_id}

\* .sort(-Order.created_at): every order of the ids that is descending in
\* created_at; the store fixes no order among equal created_at values
SortedDesc(ids) ==
    {q \in [1..Cardinality(ids) -> ids] :
        /\ \A a \in DOMAIN q, b \in DOMAIN q : a # b => q[a] # q[b]
        /\ \A a \in DOMAIN q, b \in DOMAIN q :
              a < b => orders[q[a]].created_at >= orders[q[b]].created_at}

\* PaginationParams.skip
skip(page, page_size) == (page - 1) * page_size

\* .skip(skip).limit(limit) of a cursor
SkipLimit(q, sk, limit) ==
    [k \in 1..(IF Len(q) - sk < 0 THEN 0
               ELSE IF Len(q) - sk < limit THEN Len(q) - sk ELSE limit)
        |-> q[sk + k]]

RECURSIVE TotalItems(_)
\* sum(item.quantity for item in order.items)
TotalItems(items) ==
    IF items = <<>> THEN 0 ELSE items[1].quantity + TotalItems(Tail(items))

\* OrderListItem.from_document
OrderListItem(id) ==
    [id |-> id,
     total_items |-> TotalItems(orders[id].items),
     total |-> orders[id].total,
     status |-> orders[id].status,
     created_at |-> orders[id].created_at]

\* PaginatedResponse.create
PaginatedResponse(items, total, page, page_size) ==
    LET pages == (total + page_size - 1) \div page_size
    IN  [items |-> items,
         total |-> total,
         page |-> page,
         page_size |-> page_size,
         pages |-> pages,
         has_next |-> page < pages,
         has_prev |-> page > 1]

\* routes.py list_orders: a client asks for page 1, or for the page after
\* the last one it got while that one has a next page
list_orders_begin(user_id, page, page_size) ==
    /\ listing.pc = "idle"
    /\ \/ page = 1
       \/ /\ listing.responses # <<>>
          /\ listing.user_id = user_id
          /\ listing.page_size = page_size
          /\ page = Len(listing.responses) + 1
          /\ listing.responses[Len(listing.responses)].has_next
    /\ listing' = [pc |-> "count", user_id |-> user_id, page |-> page,
                   page_size |-> page_size, total |-> 0,
                   responses |-> IF page = 1 THEN <<>> ELSE listing.responses]
    /\ UNCHANGED <<products, orders, calls, upd, now, patch, carts, ccalls, users, otps, vcalls, outbox, reply>>

\* line 135: query.count()
list_orders_count ==
    /\ listing.pc = "count"
    /\ listing' = [listing EXCEPT !.pc = "fetch",
                                  !.total = Cardinality(Find(listing.user_id))]
    /\ UNCHANGED <<products, orders, calls, upd, now, patch, carts, ccalls, users, otps, vcalls, outbox, reply>>

\* lines 136-143: the page of the sorted query and the response
list_orders_fetch ==
    /\ listing.pc = "fetch"
    /\ \E q \in SortedDesc(Find(listing.user_id)) :
          LET page == SkipLimit(q, skip(listing.page, listing.page_size),
                                listing.page_size)
              items == [k \in DOMAIN page |-> OrderListItem(page[k])]
          IN  listing' = [listing EXCEPT
                  !.pc = "idle",
                  !.responses = Append(@, PaginatedResponse(items, listing.total,
                                              listing.page, listing.page_size))]
    /\ UNCHANGED <<products, orders, calls, upd, now, patch, carts, ccalls, users, otps, vcalls, outbox, reply>>

(* ------------------------------------------------------------------ *)
(* ProductService.update_product, ProductService.delete_product        *)
(* ------------------------------------------------------------------ *)

\* lines 122-126: setattr of every field of update_dict
ApplyUpdate(product, data) ==
    [product EXCEPT
        !.name = IF "name" \in data.set THEN data.name ELSE @,
        !.price = IF "price" \in data.set THEN data.price ELSE @,
        !.stock = IF "stock" \in data.set THEN data.stock ELSE @]

\* lines 110-126: Product.get returns and the fields are set locally
update_product_get(product_id, data) ==
    /\ upd.pc = "idle"
    /\ product_id \in DOMAIN products
    /\ data.set # {}
    /\ upd' = [pc |-> "save", product_id |-> product_id,
               product |-> ApplyUpdate(products[product_id], data),
               fields |-> data.set]
    /\ UNCHANGED <<products, orders, calls, now, patch, listing, carts, ccalls, users, otps, vcalls, outbox, reply>>

\* lines 144-156
delete_product_get(product_id) ==
    /\ upd.pc = "idle"
    /\ product_id \in DOMAIN products
    /\ upd' = [pc |-> "save", product_id |-> product_id,
               product |-> [products[product_id] EXCEPT !.is_active = FALSE],
               fields |-> {"is_active"}]
    /\ UNCHANGED <<products, orders, calls, now, patch, listing, carts, ccalls, users, otps, vcalls, outbox, reply>>

\* line 128 / line 157: product.save() writes the whole local document
product_save ==
    /\ upd.pc = "save"
    /\ products' = [products EXCEPT ![upd.product_id] = upd.product]
    /\ upd' = IdleUpd
    /\ UNCHANGED <<orders, calls, now, patch, listing, carts, ccalls, users, otps, vcalls, outbox, reply>>

(* ------------------------------------------------------------------ *)
(* CartService                                                         *)
(* ------------------------------------------------------------------ *)

\* Field(ge=1, le=99) of CartItem, AddToCartRequest, UpdateCartItemRequest
MinQuantity == 1

MaxQuantity == 99

\* the literal of min(existing_item.quantity + data.quantity, 99)
QuantityCap == 99

\* CartItem; image_url is display data and is left out
CartItem(product_id, quantity, name, price) ==
    [product_id |-> product_id, quantity |-> quantity, name |-> name,
     price |-> price]

\* Cart(user_id=user_id, items=[]): both timestamps default to now
Cart(user_id, items) ==
    [user_id |-> user_id, items |-> items, created_at |-> now,
     updated_at |-> now]

NoCart == [user_id |-> "", items |-> <<>>, created_at |-> 0, updated_at |-> 0]

\* cart_id 0: the local document has not been stored yet (its id is None)
IdleCartCall ==
    [pc |-> "idle", op |-> "", user_id |-> "", product_id |-> "",
     quantity |-> 0, cart_id |-> 0, cart |-> NoCart, response |-> NoResponse]

\* Cart.find_one(Cart.user_id == user_id): the id of the first match, 0 for None
find_one(user_id) ==
    LET ids == {id \in DOMAIN carts : carts[id].user_id = user_id}
    IN  IF ids = {} THEN 0
        ELSE CHOOSE id \in ids : \A other \in ids : id <= other

\* Indexed(str, unique=True): a second document of the user is refused
UniqueViolation(user_id) == \E id \in DOMAIN carts : carts[id].user_id = user_id

CartFail(c, code, detail) ==
    ccalls' = [ccalls EXCEPT ![c].pc = "failed",
                             ![c].response = Response(code, detail)]

\* next(item for item in cart.items if item.product_id == product_id), 0 for None
LineOf(cart, product_id) ==
    LET ks == {k \in DOMAIN cart.items : cart.items[k].product_id = product_id}
    IN  IF ks = {} THEN 0 ELSE CHOOSE k \in ks : \A other \in ks : k <= other

\* cart.update_timestamp()
Touched(cart) == [cart EXCEPT !.updated_at = now]

\* get_cart line 36: find_one; a found cart is the answer, else a new one is
\* built to be inserted
get_cart_find(c, user_id) ==
    /\ ccalls[c].pc = "idle"
    /\ LET id == find_one(user_id)
       IN  IF id # 0
           THEN ccalls' = [ccalls EXCEPT ![c] =
                    [IdleCartCall EXCEPT !.pc = "done", !.op = "get_cart",
                                         !.user_id = user_id, !.cart_id = id,
                                         !.cart = carts[id],
                                         !.response = Response(200, "")]]
           ELSE ccalls' = [ccalls EXCEPT ![c] =
                    [IdleCartCall EXCEPT !.pc = "insert", !.op = "get_cart",
                                         !.user_id = user_id,
                                         !.cart = Cart(user_id, <<>>)]]
    /\ UNCHANGED <<products, orders, calls, upd, now, patch, listing, carts,
                   users, otps, vcalls, outbox, reply>>

\* a new document enters the collection unless the unique index refuses it
\* (DuplicateKeyError, which no handler catches: 500)
StoreNew(c) ==
    IF UniqueViolation(ccalls[c].cart.user_id)
    THEN /\ CartFail(c, 500, "DuplicateKeyError")
         /\ UNCHANGED carts
    ELSE /\ carts' = Append(carts, ccalls[c].cart)
         /\ ccalls' = [ccalls EXCEPT ![c].pc = "done",
                                     ![c].cart_id = Len(carts) + 1,
                                     ![c].response = Response(200, "")]

\* get_cart line 41: cart.insert()
cart_insert(c) ==
    /\ ccalls[c].pc = "insert"
    /\ StoreNew(c)
    /\ UNCHANGED <<products, orders, calls, upd, now, patch, listing,
                   users, otps, vcalls, outbox, reply>>

\* add_item lines 68-70: find_one, or a new local cart
add_item_find(c, user_id, data) ==
    /\ ccalls[c].pc = "idle"
    /\ LET id == find_one(user_id)
       IN  ccalls' = [ccalls EXCEPT ![c] =
               [IdleCartCall EXCEPT !.pc = "fetch", !.op = "add_item",
                                    !.user_id = user_id,
                                    !.product_id = data.product_id,
                                    !.quantity = data.quantity,
                                    !.cart_id = id,
                                    !.cart = IF id # 0 THEN carts[id]
                                             ELSE Cart(user_id, <<>>)]]
    /\ UNCHANGED <<products, orders, calls, upd, now, patch, listing, carts,
                   users, otps, vcalls, outbox, reply>>

\* an add that does not cap the sum
AddedUncapped(cart, product_id, quantity, product) ==
    LET k == LineOf(cart, product_id)
    IN  IF k # 0
        THEN [cart EXCEPT !.items[k].quantity = @ + quantity]
        ELSE [cart EXCEPT !.items = Append(@, CartItem(product_id, quantity,
                                                       product.name, product.price))]

\* add_item lines 76-94: the line of the product gets the sum capped at 99,
\* or a new line is appended
Added(cart, product_id, quantity, product) ==
    LET k == LineOf(cart, product_id)
    IN  IF k # 0
        THEN [cart EXCEPT !.items[k].quantity =
                 IF @ + quantity < QuantityCap THEN @ + quantity ELSE QuantityCap]
        ELSE [cart EXCEPT !.items = Append(@, CartItem(product_id, quantity,
                                                       product.name, product.price))]

\* add_item lines 73-96: _fetch_product answers (GET /products/{id} is 404
\* for a missing or inactive product, the call can also fail: 503), then the
\* local cart is changed
add_item_fetch(c) ==
    /\ ccalls[c].pc = "fetch"
    /\ \/ CartFail(c, 503, "Product service unavailable")
       \/ LET p == ccalls[c].product_id
          IN  IF p \notin DOMAIN products \/ ~ products[p].is_active
              THEN CartFail(c, 404, "Product not found")
              ELSE ccalls' = [ccalls EXCEPT
                      ![c].pc = "save",
                      ![c].cart = Touched(Added(@, p, ccalls[c].quantity, products[p]))]
    /\ UNCHANGED <<products, orders, calls, upd, now, patch, listing, carts,
                   users, otps, vcalls, outbox, reply>>

\* update_item lines 111-133
update_item_find(c, user_id, product_id, data) ==
    /\ ccalls[c].pc = "idle"
    /\ LET id == find_one(user_id)
           call == [IdleCartCall EXCEPT !.op = "update_item", !.user_id = user_id,
                                        !.product_id = product_id,
                                        !.quantity = data.quantity,
                                        !.cart_id = id]
       IN  IF id = 0
           THEN ccalls' = [ccalls EXCEPT ![c] =
                    [call EXCEPT !.pc = "failed",
                                 !.response = Response(404, "Cart not found")]]
           ELSE IF LineOf(carts[id], product_id) = 0
           THEN ccalls' = [ccalls EXCEPT ![c] =
                    [call EXCEPT !.pc = "failed",
                                 !.response = Response(404, "Item not in cart")]]
           ELSE ccalls' = [ccalls EXCEPT ![c] =
                    [call EXCEPT
                        !.pc = "save",
                        !.cart = Touched([carts[id] EXCEPT
                                    !.items[LineOf(carts[id], product_id)].quantity
                                        = data.quantity])]]
    /\ UNCHANGED <<products, orders, calls, upd, now, patch, listing, carts,
                   users, otps, vcalls, outbox, reply>>

\* [item for item in cart.items if item.product_id != product_id]
RECURSIVE Without(_, _)
Without(items, product_id) ==
    IF items = <<>> THEN <<>>
    ELSE IF items[1].product_id = product_id THEN Without(Tail(items), product_id)
    ELSE <<items[1]>> \o Without(Tail(items), product_id)

\* remove_item lines 142-152
remove_item_find(c, user_id, product_id) ==
    /\ ccalls[c].pc = "idle"
    /\ LET id == find_one(user_id)
           call == [IdleCartCall EXCEPT !.op = "remove_item", !.user_id = user_id,
                                        !.product_id = product_id, !.cart_id = id]
       IN  IF id = 0
           THEN ccalls' = [ccalls EXCEPT ![c] =
                    [call EXCEPT !.pc = "failed",
                                 !.response = Response(404, "Cart not found")]]
           ELSE ccalls' = [ccalls EXCEPT ![c] =
                    [call EXCEPT
                        !.pc = "save",
                        !.cart = Touched([carts[id] EXCEPT
                                    !.items = Without(@, product_id)])]]
    /\ UNCHANGED <<products, orders, calls, upd, now, patch, listing, carts,
                   users, otps, vcalls, outbox, reply>>

\* clear_cart lines 162-171
clear_cart_find(c, user_id) ==
    /\ ccalls[c].pc = "idle"
    /\ LET id == find_one(user_id)
           call == [IdleCartCall EXCEPT !.op = "clear_cart", !.user_id = user_id,
                                        !.cart_id = id]
       IN  IF id = 0
           THEN ccalls' = [ccalls EXCEPT ![c] =
                    [call EXCEPT !.pc = "failed",
                                 !.response = Response(404, "Cart not found")]]
           ELSE ccalls' = [ccalls EXCEPT ![c] =
                    [call EXCEPT !.pc = "save",
                                 !.cart = Touched([carts[id] EXCEPT !.items = <<>>])]]
    /\ UNCHANGED <<products, orders, calls, upd, now, patch, listing, carts,
                   users, otps, vcalls, outbox, reply>>

\* cart.save(): a stored document is written whole under its id, a document
\* without an id is inserted
cart_save(c) ==
    /\ ccalls[c].pc = "save"
    /\ IF ccalls[c].cart_id = 0
       THEN StoreNew(c)
       ELSE /\ carts' = [carts EXCEPT ![ccalls[c].cart_id] = ccalls[c].cart]
            /\ ccalls' = [ccalls EXCEPT ![c].pc = "done",
                                        ![c].response = Response(200, "")]
    /\ UNCHANGED <<products, orders, calls, upd, now, patch, listing,
                   users, otps, vcalls, outbox, reply>>

\* the handler has returned (or raised) and the next request can be served
cart_return(c) ==
    /\ ccalls[c].pc \in {"done", "failed"}
    /\ ccalls' = [ccalls EXCEPT ![c] = IdleCartCall]
    /\ UNCHANGED <<products, orders, calls, upd, now, patch, listing, carts,
                   users, otps, vcalls, outbox, reply>>

(* ------------------------------------------------------------------ *)
(* shared/otp, AuthService and the auth routes                         *)
(* ------------------------------------------------------------------ *)

\* the key otp:{email} is absent (client.get returns None)
NoOtp == ""

\* hash_password: a salted bcrypt hash, told apart here by the password only
hash_password(password) == [hashed |-> password.text]

\* verify_password
verify_password(plain_password, hashed_password) ==
    hashed_password = hash_password(plain_password)

\* the User document (phone, name and the timestamps but last_login left out)
User(email, password_hash, is_active, is_verified, avatar_url) ==
    [email |-> email, password_hash |-> password_hash, is_active |-> is_active,
     is_verified |-> is_verified, avatar_url |-> avatar_url, last_login |-> 0]

\* the accounts: an active one and one whose is_active has been set to false
InitUsers ==
    << User("ann@x", hash_password(Password("ann-secret", 10)), TRUE, FALSE, ""),
       User("bob@x", hash_password(Password("bob-secret", 10)), FALSE, FALSE, "") >>

\* User.find_one(User.email == email): the id of the user, 0 for None
find_user(email) ==
    IF \E id \in DOMAIN users : users[id].email = email
    THEN CHOOSE id \in DOMAIN users : users[id].email = email
    ELSE 0

\* create_token_pair(subject): both tokens carry the subject
create_token_pair(subject) == [sub |-> subject]

NoTokens == [sub |-> 0]

Reply(op, email, code, tokens) ==
    [op |-> op, email |-> email, code |-> code, tokens |-> tokens]

NoReply == Reply("", "", 0, NoTokens)

IdleVerify ==
    [pc |-> "idle", email |-> "", code |-> "", is_valid |-> FALSE,
     response |-> NoResponse]

\* routes.py send_otp: generate_otp draws a code, store_otp sets the key,
\* send_otp_email succeeds or not (500, the code stays stored)
send_otp(email) ==
    /\ Len(outbox) < MaxSent
    /\ \E otp_code \in Codes, success \in BOOLEAN :
          /\ otps' = [otps EXCEPT ![email] = otp_code]
          /\ outbox' = Append(outbox, [email |-> email, code |-> otp_code,
                                       delivered |-> success])
          /\ reply' = Reply("send_otp", email, IF success THEN 200 ELSE 500, NoTokens)
    /\ UNCHANGED <<products, orders, calls, upd, now, patch, listing, carts,
                   ccalls, users, vcalls>>

\* client.setex: the key goes away when its time is over
otp_expire(email) ==
    /\ otps[email] # NoOtp
    /\ otps' = [otps EXCEPT ![email] = NoOtp]
    /\ UNCHANGED <<products, orders, calls, upd, now, patch, listing, carts,
                   ccalls, users, vcalls, outbox, reply>>

\* verify_otp lines 85-93 and 98: client.get returns; a missing or different
\* code is False and the route answers 400
verify_otp_get(v, email, otp) ==
    /\ vcalls[v].pc = "idle"
    /\ LET stored_otp == otps[email]
       IN  IF stored_otp # NoOtp /\ stored_otp = otp
           THEN vcalls' = [vcalls EXCEPT ![v] =
                    [IdleVerify EXCEPT !.pc = "delete", !.email = email,
                                       !.code = otp]]
           ELSE vcalls' = [vcalls EXCEPT ![v] =
                    [IdleVerify EXCEPT
                        !.pc = "failed", !.email = email, !.code = otp,
                        !.response = Response(400, "Invalid or expired verification code")]]
    /\ UNCHANGED otps
    /\ UNCHANGED <<products, orders, calls, upd, now, patch, listing, carts,
                   ccalls, users, outbox, reply>>

\* verify_otp lines 95-96: client.delete(key), return True
verify_otp_delete(v) ==
    /\ vcalls[v].pc = "delete"
    /\ otps' = [otps EXCEPT ![vcalls[v].email] = NoOtp]
    /\ vcalls' = [vcalls EXCEPT ![v].pc = "mark", ![v].is_valid = TRUE]
    /\ UNCHANGED <<products, orders, calls, upd, now, patch, listing, carts,
                   ccalls, users, outbox, reply>>

\* routes.py verify_otp_code lines 263-269: the user, if any, is marked
\* verified and the answer is 200
verify_otp_mark(v) ==
    /\ vcalls[v].pc = "mark"
    /\ LET user == find_user(vcalls[v].email)
       IN  users' = IF user = 0 THEN users
                    ELSE [users EXCEPT ![user].is_verified = TRUE]
    /\ vcalls' = [vcalls EXCEPT ![v].pc = "done",
                                ![v].response = Response(200, "Email verified successfully")]
    /\ UNCHANGED <<products, orders, calls, upd, now, patch, listing, carts,
                   ccalls, otps, outbox, reply>>

\* the len(request.new_password) < 8 of line 342
MinPasswordLength == 8

\* routes.py reset_password
reset_password(email, new_password) ==
    /\ LET user == find_user(email)
       IN  IF new_password.length < MinPasswordLength
           THEN /\ reply' = Reply("reset_password", email, 400, NoTokens)
                /\ UNCHANGED users
           ELSE IF user = 0
           THEN /\ reply' = Reply("reset_password", email, 404, NoTokens)
                /\ UNCHANGED users
           ELSE /\ users' = [users EXCEPT
                                ![user].password_hash = hash_password(new_password)]
                /\ reply' = Reply("reset_password", email, 200, NoTokens)
    /\ UNCHANGED <<products, orders, calls, upd, now, patch, listing, carts,
                   ccalls, otps, vcalls, outbox>>

\* AuthService.login
login(email, password) ==
    /\ LET user == find_user(email)
       IN  IF user = 0 \/ ~ verify_password(password, users[user].password_hash)
           THEN /\ reply' = Reply("login", email, 401, NoTokens)
                /\ UNCHANGED users
           ELSE IF ~ users[user].is_active
           THEN /\ reply' = Reply("login", email, 401, NoTokens)
                /\ UNCHANGED users
           ELSE /\ users' = [users EXCEPT ![user].last_login = now]
                /\ reply' = Reply("login", email, 200, create_token_pair(user))
    /\ UNCHANGED <<products, orders, calls, upd, now, patch, listing, carts,
                   ccalls, otps, vcalls, outbox>>

\* AuthService.refresh_tokens; user_id is the sub of a valid refresh token
refresh_tokens(user_id) ==
    /\ IF user_id \notin DOMAIN users \/ ~ users[user_id].is_active
       THEN reply' = Reply("refresh_tokens", "", 401, NoTokens)
       ELSE reply' = Reply("refresh_tokens", users[user_id].email, 200,
                           create_token_pair(user_id))
    /\ UNCHANGED <<products, orders, calls, upd, now, patch, listing, carts,
                   ccalls, users, otps, vcalls, outbox>>

\* routes.py google_login: an existing user gets the picture if it has no
\* avatar, a new one is inserted; tokens are made for user.id either way
google_login(email, picture) ==
    /\ LET user == find_user(email)
       IN  IF user # 0
           THEN /\ users' = IF picture # "" /\ users[user].avatar_url = ""
                            THEN [users EXCEPT ![user].avatar_url = picture]
                            ELSE users
                /\ reply' = Reply("google_login", email, 200, create_token_pair(user))
           ELSE /\ users' = Append(users, User(email, [hashed |-> "google:token_hex"],
                                               TRUE, TRUE, picture))
                /\ reply' = Reply("google_login", email, 200,
                                  create_token_pair(Len(users) + 1))
    /\ UNCHANGED <<products, orders, calls, upd, now, patch, listing, carts,
                   ccalls, otps, vcalls, outbox>>

(* ------------------------------------------------------------------ *)
(* Initial state                                                       *)
(* ------------------------------------------------------------------ *)

Init ==
    /\ products = InitProducts
    /\ orders = <<>>
    /\ calls = [c \in Calls |-> IdleCall]
    /\ upd = IdleUpd
    /\ now = 0
    /\ patch = NoPatch
    /\ listing = IdleListing
    /\ carts = <<>>
    /\ ccalls = [c \in CartCalls |-> IdleCartCall]
    /\ users = InitUsers
    /\ otps = [e \in Emails |-> NoOtp]
    /\ vcalls = [v \in VerifyCalls |-> IdleVerify]
    /\ outbox = <<>>
    /\ reply = NoReply

(* ------------------------------------------------------------------ *)
(* Specifications                                                      *)
(* ------------------------------------------------------------------ *)

\* concurrent create_order requests over the catalogue
Next ==
    \/ \E c \in Calls, u \in Users, data \in RaceRequests : create_order_begin(c, u, data)
    \/ \E c \in Calls : create_order_get(c)
    \/ \E c \in Calls : create_order_save(c)
    \/ \E c \in Calls : create_order_insert(c)

Spec == Init /\ [][Next]_vars

\* time passes
tick ==
    /\ now < MaxTime
    /\ now' = now + 1
    /\ UNCHANGED <<products, orders, calls, upd, patch, listing, carts, ccalls, users, otps, vcalls, outbox, reply>>

\* the handler has returned (or raised) and the next request can be served
create_order_return(c) ==
    /\ calls[c].pc \in {"done", "failed"}
    /\ calls' = [calls EXCEPT ![c] = IdleCall]
    /\ UNCHANGED <<products, orders, upd, now, patch, listing, carts, ccalls, users, otps, vcalls, outbox, reply>>

\* orders over a catalogue under maintenance
NextLife ==
    \/ \E c \in LifeCalls, u \in LifeUsers, data \in LifeRequests :
          Len(orders) < MaxOrders /\ create_order_begin(c, u, data)
    \/ \E c \in LifeCalls : create_order_get(c)
    \/ \E c \in LifeCalls : create_order_save(c)
    \/ \E c \in LifeCalls : create_order_insert(c)
    \/ \E c \in LifeCalls : create_order_return(c)
    \/ \E p \in Maintained, data \in UpdateInputs : update_product_get(p, data)
    \/ \E p \in Maintained : delete_product_get(p)
    \/ product_save

SpecLife == Init /\ [][NextLife]_vars

\* orders of several users and their status updates, catalogue untouched
NextStatus ==
    \/ \E c \in LifeCalls, u \in Users, data \in ClockRequests :
          Len(orders) < MaxOrders /\ create_order_begin(c, u, data)
    \/ \E c \in LifeCalls : create_order_get(c)
    \/ \E c \in LifeCalls : create_order_save(c)
    \/ \E c \in LifeCalls : create_order_insert(c)
    \/ \E c \in LifeCalls : create_order_return(c)
    \/ \E who \in Callers, id \in 0..Len(orders), s \in OrderStatus :
          update_order_status(who, id, s)

SpecStatus == Init /\ [][NextStatus]_vars

\* one user's orders and their status updates while time passes
NextClock ==
    \/ \E c \in LifeCalls, data \in ClockRequests :
          Len(orders) < MaxOrders /\ create_order_begin(c, "u1", data)
    \/ \E c \in LifeCalls : create_order_get(c)
    \/ \E c \in LifeCalls : create_order_save(c)
    \/ \E c \in LifeCalls : create_order_insert(c)
    \/ \E c \in LifeCalls : create_order_return(c)
    \/ \E id \in 0..Len(orders), s \in {CONFIRMED, CANCELLED} :
          update_order_status("admin", id, s)
    \/ tick

SpecClock == Init /\ [][NextClock]_vars

\* orders of two users and the pages of their order lists
NextList ==
    \/ \E c \in LifeCalls, u \in Users, data \in ClockRequests :
          Len(orders) < MaxListed /\ create_order_begin(c, u, data)
    \/ \E c \in LifeCalls : create_order_get(c)
    \/ \E c \in LifeCalls : create_order_save(c)
    \/ \E c \in LifeCalls : create_order_insert(c)
    \/ \E c \in LifeCalls : create_order_return(c)
    \/ \E u \in Users, page \in 1..(MaxListed + 1), size \in PageSizes :
          list_orders_begin(u, page, size)
    \/ list_orders_count
    \/ list_orders_fetch
    \/ tick

SpecList == Init /\ [][NextList]_vars

\* one user's cart requests, two at a time
NextCart ==
    \/ \E c \in CartCalls, u \in CartUsers : get_cart_find(c, u)
    \/ \E c \in CartCalls : cart_insert(c)
    \/ \E c \in CartCalls, u \in CartUsers, data \in AddInputs : add_item_find(c, u, data)
    \/ \E c \in CartCalls : add_item_fetch(c)
    \/ \E c \in CartCalls, u \in CartUsers, q \in UpdateQuantities :
          update_item_find(c, u, "p1", [quantity |-> q])
    \/ \E c \in CartCalls, u \in CartUsers : remove_item_find(c, u, "p1")
    \/ \E c \in CartCalls, u \in CartUsers : clear_cart_find(c, u)
    \/ \E c \in CartCalls : cart_save(c)
    \/ \E c \in CartCalls : cart_return(c)

SpecCart == Init /\ [][NextCart]_vars

\* a user puts a first item into the cart and orders
NextCheckout ==
    \/ \E c \in LifeCalls, u \in Users, data \in CheckoutInputs :
          find_one(u) = 0 /\ add_item_find(c, u, data)
    \/ \E c \in LifeCalls : add_item_fetch(c)
    \/ \E c \in LifeCalls : cart_save(c)
    \/ \E c \in LifeCalls : cart_return(c)
    \/ \E c \in LifeCalls, u \in Users, data \in LifeRequests :
          Len(orders) < MaxOrders /\ create_order_begin(c, u, data)
    \/ \E c \in LifeCalls : create_order_get(c)
    \/ \E c \in LifeCalls : create_order_save(c)
    \/ \E c \in LifeCalls : create_order_insert(c)
    \/ \E c \in LifeCalls : create_order_return(c)

SpecCheckout == Init /\ [][NextCheckout]_vars

\* one-time codes of one email and the password resets
NextOtp ==
    \/ \E e \in OtpEmails : send_otp(e)
    \/ \E e \in OtpEmails : otp_expire(e)
    \/ \E v \in VerifyCalls, e \in OtpEmails, code \in Codes : verify_otp_get(v, e, code)
    \/ \E v \in VerifyCalls : verify_otp_delete(v)
    \/ \E v \in VerifyCalls : verify_otp_mark(v)
    \/ \E e \in ResetEmails, pw \in ResetPasswords : reset_password(e, pw)

SpecOtp == Init /\ [][NextOtp]_vars

\* the requests that answer with tokens
NextAuth ==
    \/ \E e \in Emails, pw \in Passwords : login(e, pw)
    \/ \E id \in 0..Len(users) : refresh_tokens(id)
    \/ \E e \in Emails, picture \in {"", "pic"} : google_login(e, picture)
    \/ tick

SpecAuth == Init /\ [][NextAuth]_vars

(* ------------------------------------------------------------------ *)
(* Properties                                                          *)
(* ------------------------------------------------------------------ *)

RECURSIVE SumQty(_, _)
\* total quantity of product p over a sequence of items
SumQty(items, p) ==
    IF items = <<>> THEN 0
    ELSE (IF items[1].product_id = p THEN items[1].quantity ELSE 0)
         + SumQty(Tail(items), p)

RECURSIVE SumItemTotal(_)
SumItemTotal(items) ==
    IF items = <<>> THEN 0 ELSE items[1].item_total + SumItemTotal(Tail(items))

OthersIdle(c) == \A d \in Calls \ {c} : calls[d].pc = "idle"

\* C1: two create_order calls that ask for q1 and q2 of a product with
\* q1 + q2 greater than its stock are never both persisted
C1_NoDoubleReservation ==
    \A c1 \in Calls, c2 \in Calls, p \in ProductIds :
        ( /\ c1 # c2
          /\ calls[c1].pc = "done" /\ calls[c2].pc = "done"
          /\ \A k \in DOMAIN calls[c1].items : calls[c1].items[k].quantity > 0
          /\ \A k \in DOMAIN calls[c2].items : calls[c2].items[k].quantity > 0
          /\ SumQty(calls[c1].items, p) > 0
          /\ SumQty(calls[c2].items, p) > 0 )
        => SumQty(calls[c1].items, p) + SumQty(calls[c2].items, p)
              <= InitProducts[p].stock

\* C2: the persisted stock of every product is never negative, in any
\* interleaving of create_order calls
C2_StockNonNegative == \A p \in DOMAIN products : products[p].stock >= 0

\* two overlapping orders for 3 of the 5 widgets have both been saved
C2_Witness ==
    /\ calls[1].pc = "done" /\ calls[2].pc = "done"
    /\ calls[1].items = <<Item("p1", 3)>> /\ calls[2].items = <<Item("p1", 3)>>
    /\ products["p1"].stock = 2

\* C3: a create_order call that aborts leaves every stock as it was before
\* the call and persists no order
C3_AbortLeavesNoTrace ==
    \A c \in Calls :
        (calls[c].pc = "failed" /\ OthersIdle(c))
        => /\ \A p \in ProductIds : products[p].stock = InitProducts[p].stock
           /\ orders = <<>>

\* C4: a call that fails on an item asking for more than the stock has not
\* changed that product's stock and has inserted no order
C4_InsufficientStockNoMutation ==
    \A c \in Calls :
        ( /\ calls[c].pc = "failed"
          /\ calls[c].response = Response(400, "Insufficient stock")
          /\ OthersIdle(c) )
        => LET p == calls[c].items[calls[c].i].product_id
           IN  /\ products[p].stock = InitProducts[p].stock
               /\ calls[c].order_id = 0
               /\ orders = <<>>

C6_InactiveIsNotFound ==
    \A c \in Calls : calls[c].pc = "save" => calls[c].product.is_active

\* the orders a user owns
OwnedBy(user_id) ==
    [id \in {i \in DOMAIN orders : orders[i].user_id = user_id} |-> orders[id]]

OrderIdInputs == 0..(Len(orders) + 1)

\* C7: get_order answers with an order only to its owner; to anyone else the
\* answer is the one for a missing order, and it depends on the caller's own
\* orders only
C7_GetOrderOwnerOnly ==
    \A u \in Users, id \in OrderIdInputs :
        LET r == get_order(orders, u, id)
        IN  /\ r.code = 200 =>
                  /\ id \in DOMAIN orders
                  /\ orders[id].user_id = u
                  /\ r.body = from_document(id, orders[id])
            /\ r.code # 200 => r = get_order(<<>>, u, id)
            /\ r = get_order(OwnedBy(u), u, id)

\* both users own an order
C7_Witness ==
    /\ \E id \in DOMAIN orders : orders[id].user_id = "u1"
    /\ \E id \in DOMAIN orders :
          orders[id].user_id = "u2" /\ get_order(orders, "u1", id) = NotFound

\* C8: once an order is delivered or cancelled its status never changes
C8_TerminalIsFinal ==
    [][\A id \in DOMAIN orders :
          orders[id].status \in {DELIVERED, CANCELLED}
          => orders'[id].status = orders[id].status]_vars

\* C9: every order enters the store with status pending
C9_CreatedPending ==
    [][\A id \in DOMAIN orders' \ DOMAIN orders : orders'[id].status = PENDING]_vars

\* a request has just been answered with its new, pending order
C9_Witness ==
    \E c \in Calls :
        /\ calls[c].pc = "done"
        /\ calls[c].order_id \in DOMAIN orders
        /\ orders[calls[c].order_id].status = PENDING

SnapshotOf(r) ==
    [items |-> r.body.items, subtotal |-> r.body.subtotal,
     shipping_cost |-> r.body.shipping_cost, tax |-> r.body.tax,
     total |-> r.body.total]

\* C10: the items and totals get_order returns for an order are the same
\* after every later product update, product deletion or order creation
C10_ItemsAreSnapshot ==
    [][\A id \in DOMAIN orders :
          SnapshotOf(get_order(orders, orders[id].user_id, id))'
             = SnapshotOf(get_order(orders, orders[id].user_id, id))]_vars

\* an ordered product has since got another price and name
C10_Witness ==
    \E id \in DOMAIN orders : \E k \in DOMAIN orders[id].items :
        LET it == orders[id].items[k]
        IN  /\ products[it.product_id].price # it.price
            /\ products[it.product_id].name # it.name
            /\ products[it.product_id].stock # InitProducts[it.product_id].stock


\* ids of the items of a list_orders response
IdsOf(r) == {r.items[k].id : k \in DOMAIN r.items}

LastResponse(l) == l.responses[Len(l.responses)]

\* C11: list_orders counts exactly the caller's orders and returns only the
\* caller's orders, newest first
C11_ListOwnNewestFirst ==
    [][/\ (listing.pc = "count" /\ listing'.pc = "fetch")
           => listing'.total
                 = Cardinality({id \in DOMAIN orders :
                                   orders[id].user_id = listing.user_id})
       /\ (listing.pc = "fetch" /\ listing'.pc = "idle")
           => LET r == LastResponse(listing')
              IN  /\ r.total = listing.total
                  /\ \A k \in DOMAIN r.items :
                        /\ r.items[k].id \in DOMAIN orders
                        /\ orders[r.items[k].id].user_id = listing.user_id
                        /\ r.items[k].created_at = orders[r.items[k].id].created_at
                  /\ \A a \in DOMAIN r.items, b \in DOMAIN r.items :
                        a < b => r.items[a].created_at >= r.items[b].created_at]_vars

\* a page with an older and a newer order of the caller, while the other
\* user has orders too
C11_Witness ==
    /\ listing.pc = "idle" /\ listing.responses # <<>>
    /\ \E id \in DOMAIN orders : orders[id].user_id # listing.user_id
    /\ LET r == LastResponse(listing)
       IN  /\ Len(r.items) = 2
           /\ r.items[1].created_at > r.items[2].created_at

\* C12: with no order created in between, the pages 1..pages of one user's
\* list are pairwise disjoint, their union is the user's orders, and pages,
\* has_next, has_prev are ceil(total / page_size), page < pages, page > 1
C12_PagesPartition ==
    ( /\ listing.pc = "idle" /\ listing.responses # <<>>
      /\ ~ LastResponse(listing).has_next
      /\ \A k \in DOMAIN listing.responses :
            listing.responses[k].total = Cardinality(Find(listing.user_id)) )
    => /\ \A a \in DOMAIN listing.responses, b \in DOMAIN listing.responses :
             a # b => IdsOf(listing.responses[a]) \cap IdsOf(listing.responses[b]) = {}
       /\ UNION {IdsOf(listing.responses[k]) : k \in DOMAIN listing.responses}
             = Find(listing.user_id)
       /\ \A k \in DOMAIN listing.responses :
             LET r == listing.responses[k]
             IN  /\ r.pages * r.page_size >= r.total
                 /\ (r.pages - 1) * r.page_size < r.total \/ r.total = 0
                 /\ r.has_next = (r.page < r.pages)
                 /\ r.has_prev = (r.page > 1)

\* C13: an empty items list is answered 400 before any product is read or
\* changed, and every persisted order has at least one item
C13_EmptyOrderRejected ==
    /\ \A id \in DOMAIN orders : orders[id].items # <<>>
    /\ \A c \in Calls :
          (calls[c].pc # "idle" /\ calls[c].items = <<>>)
          => /\ calls[c].pc = "failed"
             /\ calls[c].response = Response(400, "Order must contain at least one item")
             /\ calls[c].i = 0
             /\ calls[c].order_items = <<>>
             /\ calls[c].order_id = 0
             /\ OthersIdle(c) => products = InitProducts /\ orders = <<>>

\* an empty request has been refused
C13_Witness ==
    \E c \in Calls :
        /\ calls[c].pc = "failed" /\ calls[c].items = <<>>
        /\ calls[c].response.code = 400

\* C14: every line item of every persisted order has quantity >= 1
C14_QuantityPositive ==
    \A id \in DOMAIN orders : \A k \in DOMAIN orders[id].items :
        orders[id].items[k].quantity >= 1

\* C15: an order's status changes only on a request of an administrator
C15_StatusChangeByAdmin ==
    [][\A id \in DOMAIN orders :
          orders'[id].status # orders[id].status => patch'.caller = "admin"]_vars

\* Decimal ROUND_HALF_UP to 2 fractional digits (ties away from zero)
RoundHalfUp(x) ==
    IF x >= 0 THEN ((2 * x + Cent) \div (2 * Cent)) * Cent
              ELSE 0 - ((2 * (0 - x) + Cent) \div (2 * Cent)) * Cent

\* C16: the stored tax is subtotal * 0.05 rounded half-up to the cent, and
\* each item_total is price * quantity rounded half-up to the cent
C16_RoundHalfUp ==
    \A id \in DOMAIN orders :
        /\ orders[id].tax = RoundHalfUp((orders[id].subtotal * 5) \div 100)
        /\ \A k \in DOMAIN orders[id].items :
              LET it == orders[id].items[k]
              IN  it.item_total = RoundHalfUp(it.price * it.quantity)

\* C17: a successful single-item order of q units at price p from stock s
\* leaves stock s - q and has subtotal p * q, shipping_cost 0, tax 5% of the
\* subtotal to the cent and total subtotal + tax
C17_SingleItemOrder ==
    \A c \in Calls :
        (calls[c].pc = "done" /\ OthersIdle(c) /\ Len(calls[c].items) = 1)
        => LET it == calls[c].items[1]
               p == it.product_id
               o == orders[calls[c].order_id]
           IN  /\ products[p].stock = InitProducts[p].stock - it.quantity
               /\ o.subtotal = InitProducts[p].price * it.quantity
               /\ o.shipping_cost = 0
               /\ o.tax % Cent = 0
               /\ 100 * o.tax - 5 * o.subtotal <= 50 * Cent
               /\ 5 * o.subtotal - 100 * o.tax <= 50 * Cent
               /\ o.total = o.subtotal + o.tax

\* 3 of 5 widgets at 10.00: stock 2, subtotal 30.00, tax 1.50, total 31.50
C17_Witness ==
    \E c \in Calls :
        /\ calls[c].pc = "done" /\ OthersIdle(c)
        /\ calls[c].items = <<Item("p1", 3)>>
        /\ products["p1"].stock = 2
        /\ orders[calls[c].order_id].subtotal = Money(30, 0)
        /\ orders[calls[c].order_id].tax = Money(1, 50)
        /\ orders[calls[c].order_id].total = Money(31, 50)

\* the edges of the order state machine
Edges ==
    {<<PENDING, CONFIRMED>>, <<CONFIRMED, PROCESSING>>, <<PROCESSING, SHIPPED>>,
     <<SHIPPED, DELIVERED>>}
    \cup {<<st, CANCELLED>> : st \in {PENDING, CONFIRMED, PROCESSING, SHIPPED}}

\* C18: every status change follows an edge of the state machine
C18_TransitionsFollowEdges ==
    [][\A id \in DOMAIN orders :
          orders'[id].status # orders[id].status
          => <<orders[id].status, orders'[id].status>> \in Edges]_vars

\* C19: a successful update_status stamps updated_at with the time of the
\* call, updated_at is never earlier than created_at, and an update_status
\* answered 404 changes no order
C19_UpdatedAtFollowsStatus ==
    [][/\ \A id \in DOMAIN orders :
             orders'[id] # orders[id] => orders'[id].updated_at = now
       /\ \A id \in DOMAIN orders' :
             /\ orders'[id].updated_at >= orders'[id].created_at
             /\ orders'[id].updated_at <= now'
       /\ (patch' # patch /\ patch'.code = 404) => orders' = orders
       /\ (patch' # patch /\ patch'.code = 200) =>
             \E id \in DOMAIN orders : orders'[id].updated_at = now]_vars

\* an order whose status was changed after the clock had advanced, and a
\* later update of a missing order
C19_Witness ==
    /\ patch.code = 404
    /\ \E id \in DOMAIN orders :
          /\ orders[id].updated_at > orders[id].created_at
          /\ orders[id].status # PENDING

\* C20: a persisted order stays in the store and its owner keeps getting it
C20_OrdersStay ==
    [][\A id \in DOMAIN orders :
          /\ id \in DOMAIN orders'
          /\ orders'[id].user_id = orders[id].user_id
          /\ get_order(orders', orders[id].user_id, id).code = 200
          /\ get_order(orders', orders[id].user_id, id).body.items = orders[id].items]_vars

\* a cancelled order is still there next to a later one
C20_Witness ==
    \E id \in DOMAIN orders :
        /\ orders[id].status = CANCELLED
        /\ id < Len(orders)

\* the fields of an order that update_status is not to touch
FrameOf(order) ==
    [user_id |-> order.user_id, items |-> order.items,
     subtotal |-> order.subtotal, shipping_cost |-> order.shipping_cost,
     tax |-> order.tax, total |-> order.total,
     shipping_address |-> order.shipping_address,
     created_at |-> order.created_at]

\* C21: a status update changes at most one order, and of it only status
\* and updated_at; no product changes with it
C21_StatusUpdateFrame ==
    [][/\ \A id \in DOMAIN orders :
             /\ id \in DOMAIN orders'
             /\ FrameOf(orders'[id]) = FrameOf(orders[id])
       /\ (orders' # orders /\ Len(orders') = Len(orders))
             => /\ products' = products
                /\ Cardinality({id \in DOMAIN orders : orders'[id] # orders[id]}) <= 1]_vars

\* of two orders the first has been confirmed at a later time, the second
\* is as it was created
C21_Witness ==
    /\ Len(orders) = 2
    /\ orders[1].status = CONFIRMED /\ orders[1].updated_at > orders[1].created_at
    /\ orders[2].status = PENDING /\ orders[2].updated_at = orders[2].created_at
    /\ patch.code = 200

\* C22: after a create_order call that ran alone, successful or failed, no
\* product's stock is higher than before the call
C22_StockNeverIncreases ==
    \A c \in Calls :
        (calls[c].pc \in {"done", "failed"} /\ OthersIdle(c))
        => \A p \in ProductIds : products[p].stock <= InitProducts[p].stock

RECURSIVE SumOrdered(_, _)
\* total quantity of product p over a sequence of orders
SumOrdered(os, p) ==
    IF os = <<>> THEN 0 ELSE SumQty(os[1].items, p) + SumOrdered(Tail(os), p)

\* C28: while no create_order call is in progress, the stock taken from each
\* product is the quantity of it in the persisted orders
C28_StockAccounting ==
    (\A c \in Calls : calls[c].pc \in {"idle", "done", "failed"})
    => \A p \in ProductIds :
          InitProducts[p].stock - products[p].stock = SumOrdered(orders, p)

\* C29: the save of create_order takes the item's quantity from the stored
\* stock and changes nothing else of the product; the save of update_product
\* or delete_product changes only the fields that request has set
C29_NoLostUpdate ==
    [][/\ \A c \in Calls :
             (calls[c].pc = "save" /\ calls'[c].pc # "save")
             => LET item == calls[c].items[calls[c].i]
                    p == item.product_id
                IN  /\ products'[p].stock = products[p].stock - item.quantity
                    /\ products'[p].name = products[p].name
                    /\ products'[p].price = products[p].price
                    /\ products'[p].is_active = products[p].is_active
       /\ (upd.pc = "save" /\ upd'.pc = "idle")
             => LET p == upd.product_id
                IN  /\ "stock" \notin upd.fields
                          => products'[p].stock = products[p].stock
                    /\ "name" \notin upd.fields
                          => products'[p].name = products[p].name
                    /\ "price" \notin upd.fields
                          => products'[p].price = products[p].price
                    /\ "is_active" \notin upd.fields
                          => products'[p].is_active = products[p].is_active]_vars

\* the <<product_id, quantity>> pairs of a sequence of items
Lines(items) == [k \in DOMAIN items |-> <<items[k].product_id, items[k].quantity>>]

\* C23: the insert of a successful create_order takes the order's items from
\* the caller's cart and leaves that cart without items
C23_OrderClearsCart ==
    [][\A c \in Calls :
          (calls[c].pc = "insert" /\ calls'[c].pc = "done")
          => \A id \in DOMAIN carts :
                carts[id].user_id = calls[c].user_id
                => /\ Lines(orders'[calls'[c].order_id].items) = Lines(carts[id].items)
                   /\ carts'[id].items = <<>>]_vars

\* C24: of the verify_otp calls for an email no more have returned True than
\* codes have been stored for it
C24_OtpVerifiesOnce ==
    \A e \in Emails :
        Cardinality({v \in VerifyCalls : vcalls[v].email = e /\ vcalls[v].is_valid})
           <= Cardinality({k \in DOMAIN outbox : outbox[k].email = e})

\* C25: reset_password changes a password hash only when a verify-otp
\* request for that email has returned success before
C25_ResetAfterVerify ==
    [][\A id \in DOMAIN users :
          users'[id].password_hash # users[id].password_hash
          => \E v \in VerifyCalls :
                vcalls[v].email = users[id].email /\ vcalls[v].is_valid]_vars

\* C26: every item of every stored cart has a quantity of 1..99
C26_CartQuantityInRange ==
    \A id \in DOMAIN carts : \A k \in DOMAIN carts[id].items :
        /\ carts[id].items[k].quantity >= MinQuantity
        /\ carts[id].items[k].quantity <= MaxQuantity

\* a line that two add_item requests of 60 have brought to the cap, in a
\* cart with a second line
C26_Witness ==
    \E id \in DOMAIN carts :
        /\ Len(carts[id].items) = 2
        /\ \E k \in DOMAIN carts[id].items :
              carts[id].items[k] = CartItem("p1", 99, "widget", Money(10, 0))
        /\ \E c \in CartCalls :
              /\ ccalls[c].pc = "done" /\ ccalls[c].op = "add_item"
              /\ ccalls[c].product_id = "p1" /\ ccalls[c].quantity = 60

\* C27: no user has two carts, and no get_cart or add_item fails on creating
\* the cart
C27_OneCartPerUser ==
    /\ \A a \in DOMAIN carts, b \in DOMAIN carts :
          carts[a].user_id = carts[b].user_id => a = b
    /\ \A c \in CartCalls :
          ccalls[c].op \in {"get_cart", "add_item"}
          => ccalls[c].response # Response(500, "DuplicateKeyError")

\* C30: a token pair in an answer is for a user whose account is active
C30_NoTokensWhenDeactivated ==
    reply.tokens # NoTokens => users[reply.tokens.sub].is_active

====
